---- MODULE Spec2Model ----
(***************************************************************************)
(* Access resolution of the dashboard controller                           *)
(* (app/backend-postgres/controller/dashboard-controller.js): the admin    *)
(* gate, the role resolver, the document, workflow and process resolvers,  *)
(* and the request handlers getNumbers, getDetails and getWorkflowAnalysis *)
(* that orchestrate them.  The relational store is modelled by one         *)
(* variable per Prisma model; a request handler is a process whose steps   *)
(* are the segments between two awaited store calls.  `walk` follows one   *)
(* call of getAllowedDocumentIds query by query.                           *)
(***************************************************************************)
EXTENDS Integers, FiniteSets, Sequences, TLC

VARIABLES User, Role, Document, DocumentAccess, WorkflowStep, Workflow,
          WorkflowAssignment, ProcessInstance, ProcessStepInstance,
          ProcessQA, DocumentSignature, DocumentRejection, DocumentHistory,
          req, call, walk

store == <<User, Role, Document, DocumentAccess, WorkflowStep, Workflow,
           WorkflowAssignment, ProcessInstance, ProcessStepInstance,
           ProcessQA, DocumentSignature, DocumentRejection, DocumentHistory>>

vars == <<User, Role, Document, DocumentAccess, WorkflowStep, Workflow,
          WorkflowAssignment, ProcessInstance, ProcessStepInstance,
          ProcessQA, DocumentSignature, DocumentRejection, DocumentHistory,
          req, call, walk>>

(***************************************************************************)
(* Bounds of the model.                                                    *)
(***************************************************************************)
MaxUsers == 2

MaxRoles == 2

MaxDepts == 1

MaxDocs == 4

MaxGrants == 2

MaxWorkflows == 2

MaxSteps == 2

MaxAssignments == 2

MaxProcesses == 2

MaxStepInstances == 1

\* Writes of the surrounding CRUD system during one resolver call.
MaxMutations == 1

UserIds == 1..MaxUsers

\* A user id carried by a valid token whose row is no longer in the store.
GhostUserId == MaxUsers + 1

RoleIds == 1..MaxRoles

DeptIds == 1..MaxDepts

DocIds == 1..MaxDocs

WorkflowIds == 1..MaxWorkflows

\* A workflow id of a request that names no row of the store.
GhostWorkflowId == MaxWorkflows + 1

StepIds == 1..MaxSteps

ProcessIds == 1..MaxProcesses

\* parentId of a root document, and an absent userId / roleId / assignedTo.
NoId == 0

AccessTypes == {"READ", "DOWNLOAD", "EDIT"}

(***************************************************************************)
(* A nullable array of ids: `let allowedDocumentIds = null` against        *)
(* `Array.from(set)`.  The empty array is not null.                        *)
(***************************************************************************)
Null == [isNull |-> TRUE, ids |-> {}]

Arr(S) == [isNull |-> FALSE, ids |-> S]

(***************************************************************************)
(* Admin gate.                                                             *)
(***************************************************************************)
\* Variant: a role grants the bypass only with both flags set.
isUserAdmin_bothFlags(userId) ==
  IF userId \notin DOMAIN User THEN FALSE
  ELSE IF User[userId].isAdmin THEN TRUE
  ELSE \E roleId \in User[userId].roles :
         Role[roleId].isAdmin /\ Role[roleId].isRootLevel

isUserAdmin(userId) ==
  IF userId \notin DOMAIN User THEN FALSE
  ELSE IF User[userId].isAdmin THEN TRUE
  ELSE \E roleId \in User[userId].roles :
         Role[roleId].isAdmin \/ Role[roleId].isRootLevel

(***************************************************************************)
(* Identity / role resolver.  `user.roles` of a missing user is a          *)
(* TypeError: ok = FALSE stands for the thrown exception.                  *)
(***************************************************************************)
getUserRolesAndDepartments(userId) ==
  IF userId \notin DOMAIN User
  THEN [ok |-> FALSE, userRoles |-> {}, userRoleIds |-> {},
        userDepartmentIds |-> {}]
  ELSE LET userRoles == {[roleId |-> r] : r \in User[userId].roles}
       IN [ok |-> TRUE,
           userRoles |-> userRoles,
           userRoleIds |-> {ur.roleId : ur \in userRoles},
           userDepartmentIds |-> User[userId].branches]

(***************************************************************************)
(* Document resolver.                                                      *)
(***************************************************************************)
\* Variant: the role filter of the query is dropped.
userDocumentAccesses_anyRole(userId, userRoles) ==
  {a \in DocumentAccess : a.userId = userId \/ a.roleId # NoId}

\* prisma.documentAccess.findMany({where: {OR: [{userId}, {roleId: {in}}]}})
userDocumentAccesses(userId, userRoles) ==
  {a \in DocumentAccess :
     \/ a.userId = userId
     \/ a.roleId \in {ur.roleId : ur \in userRoles}}

\* The ancestor chain of a document, nearest parent first.
RECURSIVE getParentsFrom(_, _)
getParentsFrom(currentDoc, parents) ==
  IF currentDoc \in DOMAIN Document /\ Document[currentDoc].parentId # NoId
  THEN getParentsFrom(Document[currentDoc].parentId,
                      Append(parents, Document[currentDoc].parentId))
  ELSE parents

getParents(documentId) == getParentsFrom(documentId, <<>>)

\* The recursive descent of getAllChildren: `allowed` is the Set it adds to.
RECURSIVE getAllChildren(_, _)
RECURSIVE getAllChildrenOf(_, _)
getAllChildrenOf(children, allowed) ==
  IF children = {} THEN allowed
  ELSE LET child == CHOOSE c \in children : TRUE
       IN getAllChildrenOf(children \ {child},
                           getAllChildren(child, allowed \cup {child}))

\* Variant: the descent stops at the direct children.
getAllChildren_directOnly(parentId, allowed) ==
  allowed \cup {d \in DOMAIN Document : Document[d].parentId = parentId}

getAllChildren(parentId, allowed) ==
  getAllChildrenOf({d \in DOMAIN Document : Document[d].parentId = parentId},
                   allowed)

hasFullAccessParent(accesses, parents) ==
  \E parentAccess \in accesses :
     /\ parentAccess.accessLevel = "FULL"
     /\ \E i \in 1..Len(parents) : parents[i] = parentAccess.documentId

\* Variant: a FULL grant found on the ancestor chain adds the ancestors.
processAccess_addsParents(access, accesses, allowed) ==
  IF access.accessLevel = "FULL"
  THEN getAllChildren(access.documentId, allowed \cup {access.documentId})
  ELSE IF access.accessType \cap AccessTypes # {}
  THEN LET added == allowed \cup {access.documentId}
           parents == getParents(access.documentId)
       IN IF hasFullAccessParent(accesses, parents)
          THEN added \cup {parents[i] : i \in 1..Len(parents)}
          ELSE added
  ELSE allowed

\* Variant: a STANDARD grant that names no READ, DOWNLOAD or EDIT takes the
\* document out of the set.
processAccess_deniesWithoutType(access, accesses, allowed) ==
  IF access.accessLevel = "FULL"
  THEN getAllChildren(access.documentId, allowed \cup {access.documentId})
  ELSE IF access.accessType \cap AccessTypes # {}
  THEN allowed \cup {access.documentId}
  ELSE allowed \ {access.documentId}

\* Variant: a READ / DOWNLOAD / EDIT grant descends like a FULL grant.
processAccess_standardPropagates(access, accesses, allowed) ==
  IF access.accessLevel = "FULL" \/ access.accessType # {}
  THEN getAllChildren(access.documentId, allowed \cup {access.documentId})
  ELSE allowed

\* One iteration of `for (const access of userDocumentAccesses)`.
processAccess(access, accesses, allowed) ==
  IF access.accessLevel = "FULL"
  THEN getAllChildren(access.documentId, allowed \cup {access.documentId})
  ELSE IF \/ "READ" \in access.accessType
          \/ "DOWNLOAD" \in access.accessType
          \/ "EDIT" \in access.accessType
  THEN LET added == allowed \cup {access.documentId}
       IN IF hasFullAccessParent(accesses, getParents(access.documentId))
          THEN added \cup {access.documentId}
          ELSE added
  ELSE allowed

RECURSIVE processAccesses(_, _, _)
processAccesses(todo, accesses, allowed) ==
  IF todo = {} THEN allowed
  ELSE LET access == CHOOSE a \in todo : TRUE
       IN processAccesses(todo \ {access}, accesses,
                          processAccess(access, accesses, allowed))

userDocuments(userId) ==
  {d \in DOMAIN Document : Document[d].createdById = userId}

\* Variant: the documents created by the user are not added.
getAllowedDocumentIds_noCreator(userId, userRoles) ==
  LET accesses == userDocumentAccesses(userId, userRoles)
  IN processAccesses(accesses, accesses, {})

getAllowedDocumentIds(userId, userRoles) ==
  LET accesses == userDocumentAccesses(userId, userRoles)
  IN processAccesses(accesses, accesses, {}) \cup userDocuments(userId)

(***************************************************************************)
(* Workflow resolver.                                                      *)
(***************************************************************************)
\* Variant: selectedRoles is compared whatever the assignee type.
userAssignments_anyType(userId, userRoleIds, userDepartmentIds) ==
  {a \in WorkflowAssignment :
     \/ a.assigneeType = "USER" /\ userId \in a.assigneeIds
     \/ a.selectedRoles \cap userRoleIds # {}}

\* Variant: a DEPARTMENT assignment is matched on the user's departments.
userAssignments_byDepartment(userId, userRoleIds, userDepartmentIds) ==
  {a \in WorkflowAssignment :
     \/ a.assigneeType = "USER" /\ userId \in a.assigneeIds
     \/ a.assigneeType = "ROLE" /\ a.selectedRoles \cap userRoleIds # {}
     \/ /\ a.assigneeType = "DEPARTMENT"
        /\ a.selectedRoles \cap userDepartmentIds # {}}

userAssignments(userId, userRoleIds, userDepartmentIds) ==
  {a \in WorkflowAssignment :
     \/ a.assigneeType = "USER" /\ userId \in a.assigneeIds
     \/ a.assigneeType = "ROLE" /\ a.selectedRoles \cap userRoleIds # {}
     \/ a.assigneeType = "DEPARTMENT" /\ a.selectedRoles \cap userRoleIds # {}}

getAllowedWorkflowIds(userId, userRoleIds, userDepartmentIds) ==
  {WorkflowStep[a.stepId].workflowId :
     a \in userAssignments(userId, userRoleIds, userDepartmentIds)}

(***************************************************************************)
(* Process resolver.                                                       *)
(***************************************************************************)
initiatedProcesses(userId) ==
  {p \in DOMAIN ProcessInstance : ProcessInstance[p].initiatorId = userId}

\* Variant: the step instances of the user's departments are not matched.
assignedProcesses_noDepartment(userId, userRoleIds, userDepartmentIds) ==
  {s.processId : s \in
     {si \in ProcessStepInstance :
        si.assignedTo = userId \/ si.roleId \in userRoleIds}}

assignedProcesses(userId, userRoleIds, userDepartmentIds) ==
  {s.processId : s \in
     {si \in ProcessStepInstance :
        \/ si.assignedTo = userId
        \/ si.roleId \in userRoleIds
        \/ si.departmentId \in userDepartmentIds}}

workflowProcesses(allowedWorkflowIds) ==
  {p \in DOMAIN ProcessInstance :
     ProcessInstance[p].workflowId \in allowedWorkflowIds}

\* Variant: the processes of the allowed workflows are not added.
getAllowedProcessIds_noWorkflowProcesses(userId, userRoleIds, userDepartmentIds, allowedWorkflowIds) ==
  initiatedProcesses(userId)
    \cup assignedProcesses(userId, userRoleIds, userDepartmentIds)

getAllowedProcessIds(userId, userRoleIds, userDepartmentIds, allowedWorkflowIds) ==
  initiatedProcesses(userId)
    \cup assignedProcesses(userId, userRoleIds, userDepartmentIds)
    \cup workflowProcesses(allowedWorkflowIds)

(***************************************************************************)
(* Stores the model starts from.  Every family below is a set of stores    *)
(* the schema admits: every foreign key names an existing row, and the     *)
(* parent relation of Document is acyclic (a parent has a smaller id).     *)
(***************************************************************************)
RECURSIVE SubsetsUpTo(_, _)
SubsetsUpTo(R, k) ==
  IF k = 0 THEN {{}}
  ELSE LET P == SubsetsUpTo(R, k - 1)
       IN P \cup {S \cup {x} : S \in P, x \in R}

NoCalls == <<>>

NoRequests == <<>>

\* No call of getAllowedDocumentIds is being followed query by query.
IdleWalk ==
  [pc |-> "idle", userId |-> NoId, accesses |-> {}, todo |-> {},
   allowed |-> {}, stack |-> <<>>, parentId |-> NoId, currentDoc |-> NoId,
   parents |-> {}, snapshots |-> {}, mutations |-> 0]

\* User u holds role u (when that role exists) and sits in branch u.
PlainUsers ==
  [u \in UserIds |->
     [isAdmin |-> FALSE, roles |-> {u} \cap RoleIds,
      branches |-> {u} \cap DeptIds]]

PlainRoles == [r \in RoleIds |-> [isAdmin |-> FALSE, isRootLevel |-> FALSE]]

Forests == {f \in [DocIds -> 0..MaxDocs] : \A d \in DocIds : f[d] < d}

ChainForest == [d \in DocIds |-> d - 1]

\* A folder with two children, one of which has a child of its own.
BushyForest ==
  [d \in DocIds |->
     IF d = 1 THEN NoId ELSE IF d = MaxDocs THEN MaxDocs - 1 ELSE 1]

MakeDocuments(parentOf, authored) ==
  [d \in DocIds |->
     [parentId |-> parentOf[d],
      createdById |-> IF d \in authored THEN 1 ELSE MaxUsers]]

Grant(documentId, userId, roleId, accessLevel, accessType) ==
  [documentId |-> documentId, userId |-> userId, roleId |-> roleId,
   accessLevel |-> accessLevel, accessType |-> accessType]

\* The subject of a grant is a user or a role.
GrantSubjects ==
  {<<1, NoId>>} \cup {<<NoId, r>> : r \in RoleIds \cap {1, 2}}

GrantKindsAll ==
  {<<"FULL", {}>>, <<"STANDARD", {}>>, <<"STANDARD", {"READ"}>>,
   <<"STANDARD", {"DOWNLOAD"}>>, <<"STANDARD", {"EDIT"}>>,
   <<"STANDARD", AccessTypes>>}

GrantKindsFew == {<<"FULL", {}>>, <<"STANDARD", {"READ"}>>}

\* User 1, and the role user 1 does not hold.
GrantSubjectsFew == {<<1, NoId>>} \cup {<<NoId, r>> : r \in RoleIds \cap {2}}

GrantRows(subjects, kinds) ==
  {Grant(d, s[1], s[2], k[1], k[2]) :
     d \in DocIds, s \in subjects, k \in kinds}

Assignment(stepId, assigneeType, assigneeIds, selectedRoles) ==
  [stepId |-> stepId, assigneeType |-> assigneeType,
   assigneeIds |-> assigneeIds, selectedRoles |-> selectedRoles]

\* On every step and for every assignee type, a row naming user 1 and a
\* row selecting role 1.
AssignmentRows ==
  {Assignment(s, t, x[1], x[2]) :
     s \in StepIds, t \in {"USER", "ROLE", "DEPARTMENT"},
     x \in {<<{1}, {}>>, <<{}, {1}>>}}

\* The steps are numbered workflow by workflow.
StepMaps ==
  {m \in [StepIds -> [workflowId : WorkflowIds]] :
     \A s \in StepIds, t \in StepIds :
       s <= t => m[s].workflowId <= m[t].workflowId}

PlainSteps ==
  [s \in StepIds |->
     [workflowId |-> IF s \in WorkflowIds THEN s ELSE MaxWorkflows]]

PlainProcesses ==
  [p \in ProcessIds |->
     [workflowId |-> IF p \in WorkflowIds THEN p ELSE MaxWorkflows,
      initiatorId |-> MaxUsers]]

StepInstance(processId, assignedTo, roleId, departmentId) ==
  [processId |-> processId, assignedTo |-> assignedTo, roleId |-> roleId,
   departmentId |-> departmentId]

\* For every process, a step instance assigned to nobody, to user 1, to
\* role 1 or to department 1.
StepInstanceRows ==
  {StepInstance(p, x[1], x[2], x[3]) :
     p \in ProcessIds,
     x \in {<<NoId, NoId, NoId>>, <<1, NoId, NoId>>, <<NoId, 1, NoId>>,
            <<NoId, NoId, 1>>}}

InitPlainIdentity == User = PlainUsers /\ Role = PlainRoles

\* The rows the report queries read, taken as the rows that meet the date
\* range and status conditions of the request: a question on every process
\* and a signature, a rejection and a replacement of every document in
\* every process.
ProcessDocumentRows ==
  {[documentId |-> d, processId |-> p] : d \in DocIds, p \in ProcessIds}

InitReportRows ==
  /\ ProcessQA = {[processId |-> p] : p \in ProcessIds}
  /\ DocumentSignature = ProcessDocumentRows
  /\ DocumentRejection = ProcessDocumentRows
  /\ DocumentHistory = ProcessDocumentRows

InitPlainDocuments ==
  /\ Document = MakeDocuments(ChainForest, {})
  /\ DocumentAccess = {}

InitPlainWorkflows ==
  /\ Workflow = WorkflowIds
  /\ WorkflowStep = PlainSteps
  /\ WorkflowAssignment = {}

InitPlainProcesses ==
  /\ ProcessInstance = PlainProcesses
  /\ ProcessStepInstance = {}

\* Identity data: every combination of the three admin flags.
InitIdentity ==
  /\ \E adm \in [UserIds -> BOOLEAN], rs \in [UserIds -> SUBSET RoleIds] :
       User = [u \in UserIds |->
                 [isAdmin |-> adm[u], roles |-> rs[u],
                  branches |-> {u} \cap DeptIds]]
  /\ Role \in [RoleIds -> [isAdmin : BOOLEAN, isRootLevel : BOOLEAN]]
  /\ InitPlainDocuments /\ InitPlainWorkflows /\ InitPlainProcesses
  /\ InitReportRows
  /\ req = NoRequests /\ call = NoCalls /\ walk = IdleWalk

\* Document data: every forest, with either at most one grant of any kind
\* and at most one document authored by user 1, or up to MaxGrants FULL /
\* READ grants and the last document authored by user 1.
InitDocs ==
  /\ InitPlainIdentity
  /\ \E f \in Forests :
       \/ \E authored \in SubsetsUpTo(DocIds, 1) :
            /\ Document = MakeDocuments(f, authored)
            /\ DocumentAccess \in
                 SubsetsUpTo(GrantRows(GrantSubjects, GrantKindsAll), 1)
       \/ /\ Document = MakeDocuments(f, {MaxDocs})
          /\ DocumentAccess \in
               SubsetsUpTo(GrantRows(GrantSubjectsFew, GrantKindsFew),
                           MaxGrants)
  /\ InitPlainWorkflows /\ InitPlainProcesses
  /\ InitReportRows
  /\ req = NoRequests /\ call = NoCalls /\ walk = IdleWalk

\* Workflow data: user 1 with any set of roles, every numbering of the
\* steps, up to MaxAssignments assignments.
InitWorkflows ==
  /\ \E rs \in SUBSET RoleIds : User = [PlainUsers EXCEPT ![1].roles = rs]
  /\ Role = PlainRoles
  /\ InitPlainDocuments
  /\ Workflow = WorkflowIds
  /\ WorkflowStep \in StepMaps
  /\ WorkflowAssignment \in SubsetsUpTo(AssignmentRows, MaxAssignments)
  /\ InitPlainProcesses
  /\ InitReportRows
  /\ req = NoRequests /\ call = NoCalls /\ walk = IdleWalk

\* Process data: every process in any workflow, initiated by the first or
\* the last user, with up to MaxStepInstances step instances.
InitProcesses ==
  /\ InitPlainIdentity /\ InitPlainDocuments /\ InitPlainWorkflows
  /\ ProcessInstance \in
       [ProcessIds ->
          [workflowId : WorkflowIds, initiatorId : {1, MaxUsers}]]
  /\ ProcessStepInstance \in SubsetsUpTo(StepInstanceRows, MaxStepInstances)
  /\ InitReportRows
  /\ req = NoRequests /\ call = NoCalls /\ walk = IdleWalk

(***************************************************************************)
(* Direct calls of the resolvers: `call` records the arguments and the     *)
(* returned value of each call made so far.                                *)
(***************************************************************************)
Called(fn, userId, userRoleIds, userDepartmentIds, allowedWorkflowIds, retBool, retIds) ==
  [fn |-> fn, userId |-> userId, userRoleIds |-> userRoleIds,
   userDepartmentIds |-> userDepartmentIds,
   allowedWorkflowIds |-> allowedWorkflowIds,
   retBool |-> retBool, retIds |-> retIds]

CallIsUserAdmin ==
  /\ call = NoCalls
  /\ \E userId \in UserIds \cup {GhostUserId} :
       call' = <<Called("isUserAdmin", userId, {}, {}, {},
                        isUserAdmin(userId), {})>>
  /\ UNCHANGED <<store, req, walk>>

CallGetAllowedDocumentIds ==
  /\ call = NoCalls
  /\ \E userId \in UserIds :
       LET ur == getUserRolesAndDepartments(userId)
       IN call' = <<Called("getAllowedDocumentIds", userId, ur.userRoleIds,
                           {}, {}, FALSE,
                           getAllowedDocumentIds(userId, ur.userRoles))>>
  /\ UNCHANGED <<store, req, walk>>

CallGetAllowedWorkflowIds ==
  /\ call = NoCalls
  /\ \E userId \in UserIds :
       LET ur == getUserRolesAndDepartments(userId)
       IN call' = <<Called("getAllowedWorkflowIds", userId, ur.userRoleIds,
                           ur.userDepartmentIds, {}, FALSE,
                           getAllowedWorkflowIds(userId, ur.userRoleIds,
                                                 ur.userDepartmentIds))>>
  /\ UNCHANGED <<store, req, walk>>

\* A second call for the same user and roles with other departments.
CallGetAllowedWorkflowIdsAgain ==
  /\ Len(call) = 1
  /\ call[1].fn = "getAllowedWorkflowIds"
  /\ \E userDepartmentIds \in (SUBSET DeptIds) \ {call[1].userDepartmentIds} :
       call' = Append(call,
                 Called("getAllowedWorkflowIds", call[1].userId,
                        call[1].userRoleIds, userDepartmentIds, {}, FALSE,
                        getAllowedWorkflowIds(call[1].userId,
                                              call[1].userRoleIds,
                                              userDepartmentIds)))
  /\ UNCHANGED <<store, req, walk>>

CallGetAllowedProcessIds ==
  /\ call = NoCalls
  /\ \E userId \in UserIds, allowedWorkflowIds \in SUBSET WorkflowIds :
       LET ur == getUserRolesAndDepartments(userId)
       IN call' = <<Called("getAllowedProcessIds", userId, ur.userRoleIds,
                           ur.userDepartmentIds, allowedWorkflowIds, FALSE,
                           getAllowedProcessIds(userId, ur.userRoleIds,
                                                ur.userDepartmentIds,
                                                allowedWorkflowIds))>>
  /\ UNCHANGED <<store, req, walk>>

\* The grants that may be added for user 1 or for role 1, which user 1
\* holds: of every level, with and without READ.
AddableGrants ==
  GrantRows({<<1, NoId>>, <<NoId, 1>>},
            {<<"FULL", {}>>, <<"STANDARD", {}>>, <<"STANDARD", {"READ"}>>})

\* The surrounding CRUD system grants user 1 or role 1 access to one more
\* document after a first call of getAllowedDocumentIds.
AddDocumentAccess ==
  /\ Len(call) = 1
  /\ call[1].fn = "getAllowedDocumentIds"
  /\ Cardinality(DocumentAccess) < MaxGrants
  /\ \E g \in AddableGrants \ DocumentAccess :
       DocumentAccess' = DocumentAccess \cup {g}
  /\ UNCHANGED <<User, Role, Document, WorkflowStep, Workflow,
                 WorkflowAssignment, ProcessInstance, ProcessStepInstance,
                 ProcessQA, DocumentSignature, DocumentRejection,
                 DocumentHistory, req, call, walk>>

\* The surrounding CRUD system adds one more assignment after a first call
\* of getAllowedWorkflowIds.
AddWorkflowAssignment ==
  /\ Len(call) = 1
  /\ call[1].fn = "getAllowedWorkflowIds"
  /\ Cardinality(WorkflowAssignment) < MaxAssignments
  /\ \E a \in AssignmentRows \ WorkflowAssignment :
       WorkflowAssignment' = WorkflowAssignment \cup {a}
  /\ UNCHANGED <<User, Role, Document, DocumentAccess, WorkflowStep, Workflow,
                 ProcessInstance, ProcessStepInstance, ProcessQA,
                 DocumentSignature, DocumentRejection, DocumentHistory,
                 req, call, walk>>

\* A second call for the same user over the store as it is now.
RecallGetAllowedDocumentIds ==
  /\ Len(call) = 1
  /\ call[1].fn = "getAllowedDocumentIds"
  /\ LET ur == getUserRolesAndDepartments(call[1].userId)
     IN call' = Append(call,
                  Called("getAllowedDocumentIds", call[1].userId,
                         ur.userRoleIds, {}, {}, FALSE,
                         getAllowedDocumentIds(call[1].userId, ur.userRoles)))
  /\ UNCHANGED <<store, req, walk>>

RecallGetAllowedWorkflowIds ==
  /\ Len(call) = 1
  /\ call[1].fn = "getAllowedWorkflowIds"
  /\ call' = Append(call,
               Called("getAllowedWorkflowIds", call[1].userId,
                      call[1].userRoleIds, call[1].userDepartmentIds, {},
                      FALSE,
                      getAllowedWorkflowIds(call[1].userId,
                                            call[1].userRoleIds,
                                            call[1].userDepartmentIds)))
  /\ UNCHANGED <<store, req, walk>>

\* A second call for the same user with a larger allowed-workflow argument.
RecallGetAllowedProcessIds ==
  /\ Len(call) = 1
  /\ call[1].fn = "getAllowedProcessIds"
  /\ \E allowedWorkflowIds \in SUBSET WorkflowIds :
       /\ call[1].allowedWorkflowIds \subseteq allowedWorkflowIds
       /\ call[1].allowedWorkflowIds # allowedWorkflowIds
       /\ call' = Append(call,
                    Called("getAllowedProcessIds", call[1].userId,
                           call[1].userRoleIds, call[1].userDepartmentIds,
                           allowedWorkflowIds, FALSE,
                           getAllowedProcessIds(call[1].userId,
                                                call[1].userRoleIds,
                                                call[1].userDepartmentIds,
                                                allowedWorkflowIds)))
  /\ UNCHANGED <<store, req, walk>>

\* Stores that grow between two calls: a chain or a bushy forest with at
\* most one grant of user 1 or role 1, or at most one assignment, or at most
\* one step instance.
InitGrowing ==
  /\ InitPlainIdentity
  /\ Workflow = WorkflowIds
  /\ WorkflowStep = PlainSteps
  /\ ProcessInstance = PlainProcesses
  /\ \/ /\ \E f \in {ChainForest, BushyForest} :
             Document = MakeDocuments(f, {MaxDocs})
        /\ DocumentAccess \in SubsetsUpTo(AddableGrants, 1)
        /\ WorkflowAssignment = {}
        /\ ProcessStepInstance = {}
     \/ /\ InitPlainDocuments
        /\ WorkflowAssignment \in SubsetsUpTo(AssignmentRows, 1)
        /\ ProcessStepInstance = {}
     \/ /\ InitPlainDocuments
        /\ WorkflowAssignment = {}
        /\ ProcessStepInstance \in SubsetsUpTo(StepInstanceRows, 1)
  /\ InitReportRows
  /\ req = NoRequests /\ call = NoCalls /\ walk = IdleWalk

NextGrowing ==
  \/ CallGetAllowedDocumentIds
  \/ CallGetAllowedWorkflowIds
  \/ CallGetAllowedProcessIds
  \/ AddDocumentAccess
  \/ AddWorkflowAssignment
  \/ RecallGetAllowedDocumentIds
  \/ RecallGetAllowedWorkflowIds
  \/ RecallGetAllowedProcessIds

SpecGrowing == InitGrowing /\ [][NextGrowing]_vars

NextAdminGate == CallIsUserAdmin

NextDocs == CallGetAllowedDocumentIds

NextWorkflows == CallGetAllowedWorkflowIds \/ CallGetAllowedWorkflowIdsAgain

NextProcesses == CallGetAllowedProcessIds

SpecAdminGate == InitIdentity /\ [][NextAdminGate]_vars

SpecDocs == InitDocs /\ [][NextDocs]_vars

SpecWorkflows == InitWorkflows /\ [][NextWorkflows]_vars

SpecProcesses == InitProcesses /\ [][NextProcesses]_vars

(***************************************************************************)
(* Request handlers.  req[r] is the activation of one handler: its inputs, *)
(* its locals, `pc` the awaited call it is suspended on, `status` the HTTP *)
(* status it answered with (0: none yet), `ran` the awaited calls that     *)
(* have resolved, `threw` the call that threw ("": none) and `details`     *)
(* the `details` of an error body ("": none); `report` holds the rows that *)
(* the report queries of a 200 response returned or counted.               *)
(***************************************************************************)
Endpoints == {"getNumbers", "getDetails", "getWorkflowAnalysis"}

Unauthorized == [authorized |-> FALSE, id |-> NoId]

Authenticated(userId) == [authorized |-> TRUE, id |-> userId]

\* What the external verifyUser may resolve to.
UserDatas == {Unauthorized} \cup {Authenticated(u) : u \in UserIds \cup {GhostUserId}}

\* The rows behind the figures and lists of a 200 response.
NoReport ==
  [workflows |-> {}, processes |-> {}, stepInstances |-> {}, queries |-> {},
   signedDocuments |-> {}, rejectedDocuments |-> {},
   replacedDocuments |-> {}]

IdleRequest ==
  [pc |-> "idle", endpoint |-> "getNumbers", userData |-> Unauthorized,
   datesValid |-> FALSE, workflowId |-> NoId, isAdmin |-> FALSE,
   userRoles |-> {}, userRoleIds |-> {}, userDepartmentIds |-> {},
   allowedDocumentIds |-> Null, allowedWorkflowIds |-> Null,
   allowedProcessIds |-> Null, status |-> 0, ran |-> {}, threw |-> "",
   details |-> "", report |-> NoReport]

Respond(rq, status) == [rq EXCEPT !.pc = "done", !.status = status]

\* The catch block of the handler: `thrower` threw, the answer is 500 and
\* its body carries `details: error.message`.
Catch(rq, thrower) ==
  [rq EXCEPT !.pc = "done", !.status = 500, !.threw = thrower,
             !.details = "error.message"]

Await(rq, next) == [rq EXCEPT !.pc = next, !.ran = @ \cup {rq.pc}]

\* The handler is entered and awaits verifyUser(accessToken).
Receive(r) ==
  /\ req[r].pc = "idle"
  /\ \E endpoint \in Endpoints, userData \in UserDatas,
        datesValid \in BOOLEAN, workflowId \in WorkflowIds \cup {GhostWorkflowId} :
       req' = [req EXCEPT ![r] =
                 [@ EXCEPT !.pc = "verifyUser", !.endpoint = endpoint,
                           !.userData = userData, !.datesValid = datesValid,
                           !.workflowId =
                             IF endpoint = "getWorkflowAnalysis"
                             THEN workflowId ELSE NoId]]
  /\ UNCHANGED <<store, call, walk>>

\* Variant: the "Unauthorized" signal is not looked at.
AfterVerifyUser_noCheck(rq) ==
  IF ~ rq.datesValid THEN Catch(Await(rq, "done"), "validateDateRange")
  ELSE IF rq.endpoint = "getNumbers" THEN Await(rq, "queries")
  ELSE Await(rq, "isUserAdmin")

\* verifyUser resolved: 401, or validateDateRange throws (500), or the
\* first store call is awaited.
AfterVerifyUser(rq) ==
  IF ~ rq.userData.authorized THEN Respond(Await(rq, "done"), 401)
  ELSE IF ~ rq.datesValid THEN Catch(Await(rq, "done"), "validateDateRange")
  ELSE IF rq.endpoint = "getNumbers" THEN Await(rq, "queries")
  ELSE Await(rq, "isUserAdmin")

VerifyUser(r) ==
  /\ req[r].pc = "verifyUser"
  /\ req' = [req EXCEPT ![r] = AfterVerifyUser(req[r])]
  /\ UNCHANGED <<store, call, walk>>

\* Variant: the resolvers run for an admin as well.
AfterIsUserAdmin_runsResolvers(rq) ==
  [Await(rq, "getUserRolesAndDepartments") EXCEPT
     !.isAdmin = isUserAdmin(rq.userData.id)]

\* Variant: the workflow check of getWorkflowAnalysis is made for an admin
\* as well.
AfterIsUserAdmin_checksWorkflow(rq) ==
  LET isAdmin == isUserAdmin(rq.userData.id)
  IN IF ~ isAdmin
     THEN [Await(rq, "getUserRolesAndDepartments") EXCEPT !.isAdmin = isAdmin]
     ELSE [Await(rq, IF rq.endpoint = "getDetails"
                     THEN "queries" ELSE "getAllowedWorkflowIds") EXCEPT
             !.isAdmin = isAdmin]

\* isUserAdmin resolved: an admin skips the resolvers.
AfterIsUserAdmin(rq) ==
  LET isAdmin == isUserAdmin(rq.userData.id)
  IN IF ~ isAdmin
     THEN [Await(rq, "getUserRolesAndDepartments") EXCEPT !.isAdmin = isAdmin]
     ELSE [Await(rq, IF rq.endpoint = "getDetails"
                     THEN "queries" ELSE "findWorkflow") EXCEPT
             !.isAdmin = isAdmin]

IsUserAdmin(r) ==
  /\ req[r].pc = "isUserAdmin"
  /\ req' = [req EXCEPT ![r] = AfterIsUserAdmin(req[r])]
  /\ UNCHANGED <<store, call, walk>>

\* getUserRolesAndDepartments resolved, or threw on a missing user.
AfterGetUserRolesAndDepartments(rq) ==
  LET ur == getUserRolesAndDepartments(rq.userData.id)
  IN IF ~ ur.ok THEN Catch(rq, rq.pc)
     ELSE [Await(rq, IF rq.endpoint = "getDetails"
                     THEN "getAllowedDocumentIds"
                     ELSE "getAllowedWorkflowIds") EXCEPT
             !.userRoles = ur.userRoles,
             !.userRoleIds = ur.userRoleIds,
             !.userDepartmentIds = ur.userDepartmentIds]

GetUserRolesAndDepartments(r) ==
  /\ req[r].pc = "getUserRolesAndDepartments"
  /\ req' = [req EXCEPT ![r] = AfterGetUserRolesAndDepartments(req[r])]
  /\ UNCHANGED <<store, call, walk>>

\* Variant: an empty result is turned into null.
AfterGetAllowedDocumentIds_nullWhenEmpty(rq) ==
  LET ids == getAllowedDocumentIds(rq.userData.id, rq.userRoles)
  IN [Await(rq, IF rq.endpoint = "getDetails"
                THEN "getAllowedWorkflowIds"
                ELSE "getAllowedProcessIds") EXCEPT
        !.allowedDocumentIds = IF ids = {} THEN Null ELSE Arr(ids)]

\* getAllowedDocumentIds resolved.
AfterGetAllowedDocumentIds(rq) ==
  [Await(rq, IF rq.endpoint = "getDetails"
             THEN "getAllowedWorkflowIds"
             ELSE "getAllowedProcessIds") EXCEPT
     !.allowedDocumentIds =
        Arr(getAllowedDocumentIds(rq.userData.id, rq.userRoles))]

\* Variant: the traversal keeps its visited documents in a set shared by all
\* activations and never cleared, so documents another activation has
\* already collected are skipped.
GetAllowedDocumentIds_sharedVisited(r) ==
  /\ req[r].pc = "getAllowedDocumentIds"
  /\ LET rq == AfterGetAllowedDocumentIds(req[r])
         visited == UNION {req[o].allowedDocumentIds.ids :
                             o \in DOMAIN req \ {r}}
     IN req' = [req EXCEPT ![r] =
                  [rq EXCEPT !.allowedDocumentIds =
                               Arr(rq.allowedDocumentIds.ids \ visited)]]
  /\ UNCHANGED <<store, call, walk>>

GetAllowedDocumentIds(r) ==
  /\ req[r].pc = "getAllowedDocumentIds"
  /\ req' = [req EXCEPT ![r] = AfterGetAllowedDocumentIds(req[r])]
  /\ UNCHANGED <<store, call, walk>>

\* Variant: getWorkflowAnalysis does not check the requested workflow.
AfterGetAllowedWorkflowIds_noCheck(rq) ==
  LET ids == getAllowedWorkflowIds(rq.userData.id, rq.userRoleIds,
                                   rq.userDepartmentIds)
      got == [rq EXCEPT !.allowedWorkflowIds = Arr(ids)]
  IN Await(got, IF rq.endpoint = "getDetails"
                THEN "getAllowedProcessIds" ELSE "getAllowedDocumentIds")

\* getAllowedWorkflowIds resolved; getWorkflowAnalysis then checks the
\* requested workflow against the result and answers 403 when it is absent.
AfterGetAllowedWorkflowIds(rq) ==
  LET ids == getAllowedWorkflowIds(rq.userData.id, rq.userRoleIds,
                                   rq.userDepartmentIds)
      got == [rq EXCEPT !.allowedWorkflowIds = Arr(ids)]
  IN IF rq.endpoint = "getDetails"
     THEN Await(got, "getAllowedProcessIds")
     ELSE IF rq.workflowId \notin ids
     THEN Respond(Await(got, "done"), 403)
     ELSE Await(got, "getAllowedDocumentIds")

\* Variant: the workflow ids are collected in a set shared by all
\* activations, so a result also holds what other activations collected.
GetAllowedWorkflowIds_sharedResult(r) ==
  /\ req[r].pc = "getAllowedWorkflowIds"
  /\ LET shared == UNION {req[o].allowedWorkflowIds.ids :
                            o \in DOMAIN req \ {r}}
         ids == shared \cup getAllowedWorkflowIds(req[r].userData.id,
                                                  req[r].userRoleIds,
                                                  req[r].userDepartmentIds)
         got == [req[r] EXCEPT !.allowedWorkflowIds = Arr(ids)]
     IN req' = [req EXCEPT ![r] =
                  IF got.endpoint = "getDetails"
                  THEN Await(got, "getAllowedProcessIds")
                  ELSE IF got.workflowId \notin ids
                  THEN Respond(Await(got, "done"), 403)
                  ELSE Await(got, "getAllowedDocumentIds")]
  /\ UNCHANGED <<store, call, walk>>

GetAllowedWorkflowIds(r) ==
  /\ req[r].pc = "getAllowedWorkflowIds"
  /\ req' = [req EXCEPT ![r] = AfterGetAllowedWorkflowIds(req[r])]
  /\ UNCHANGED <<store, call, walk>>

\* Variant: the allowed workflows are not passed on to the process resolver.
AfterGetAllowedProcessIds_withoutWorkflows(rq) ==
  [Await(rq, IF rq.endpoint = "getDetails"
             THEN "queries" ELSE "findWorkflow") EXCEPT
     !.allowedProcessIds =
        Arr(getAllowedProcessIds(
              rq.userData.id, rq.userRoleIds, rq.userDepartmentIds,
              IF rq.endpoint = "getDetails" THEN {} ELSE {rq.workflowId}))]

\* Variant: getWorkflowAnalysis passes every workflow instead of
\* [workflowId].
AfterGetAllowedProcessIds_allWorkflows(rq) ==
  [Await(rq, IF rq.endpoint = "getDetails"
             THEN "queries" ELSE "findWorkflow") EXCEPT
     !.allowedProcessIds =
        Arr(getAllowedProcessIds(
              rq.userData.id, rq.userRoleIds, rq.userDepartmentIds,
              IF rq.endpoint = "getDetails"
              THEN rq.allowedWorkflowIds.ids ELSE Workflow))]

\* getAllowedProcessIds resolved: called with the allowed workflows in
\* getDetails and with [workflowId] in getWorkflowAnalysis.
AfterGetAllowedProcessIds(rq) ==
  [Await(rq, IF rq.endpoint = "getDetails"
             THEN "queries" ELSE "findWorkflow") EXCEPT
     !.allowedProcessIds =
        Arr(getAllowedProcessIds(
              rq.userData.id, rq.userRoleIds, rq.userDepartmentIds,
              IF rq.endpoint = "getDetails"
              THEN rq.allowedWorkflowIds.ids ELSE {rq.workflowId}))]

GetAllowedProcessIds(r) ==
  /\ req[r].pc = "getAllowedProcessIds"
  /\ req' = [req EXCEPT ![r] = AfterGetAllowedProcessIds(req[r])]
  /\ UNCHANGED <<store, call, walk>>

\* Variant: a workflow that is not found is analysed all the same.
AfterFindWorkflow_noCheck(rq) == Await(rq, "queries")

\* prisma.workflow.findUnique resolved in getWorkflowAnalysis.
AfterFindWorkflow(rq) ==
  IF rq.workflowId \notin Workflow THEN Respond(Await(rq, "done"), 404)
  ELSE Await(rq, "queries")

FindWorkflow(r) ==
  /\ req[r].pc = "findWorkflow"
  /\ req' = [req EXCEPT ![r] = AfterFindWorkflow(req[r])]
  /\ UNCHANGED <<store, call, walk>>

\* Variant: the filter is dropped when the allowed array is empty.
InAllowed_unlessEmpty(rq, allowed, id) ==
  (~ rq.isAdmin /\ ~ allowed.isNull /\ allowed.ids # {}) => id \in allowed.ids

\* `...(!isAdmin && allowedIds ? {id: {in: allowedIds}} : {})` as a
\* condition on the id of a row: an array, even an empty one, is truthy.
InAllowed(rq, allowed, id) ==
  (~ rq.isAdmin /\ ~ allowed.isNull) => id \in allowed.ids

\* The processDocument condition of the signature and rejection queries of
\* getDetails.
ProcessDocumentAllowed(rq, row) ==
  (~ rq.isAdmin /\ (~ rq.allowedDocumentIds.isNull
                     \/ ~ rq.allowedProcessIds.isNull)) =>
    /\ rq.allowedDocumentIds.isNull
         \/ row.documentId \in rq.allowedDocumentIds.ids
    /\ rq.allowedProcessIds.isNull
         \/ row.processId \in rq.allowedProcessIds.ids

\* getNumbers counts the rows of every table without any filter on ids.
getNumbersReport ==
  [workflows |-> Workflow, processes |-> DOMAIN ProcessInstance,
   stepInstances |-> ProcessStepInstance, queries |-> ProcessQA,
   signedDocuments |-> DocumentSignature,
   rejectedDocuments |-> DocumentRejection,
   replacedDocuments |-> DocumentHistory]

getDetailsReport(rq) ==
  [workflows |->
     {w \in Workflow : InAllowed(rq, rq.allowedWorkflowIds, w)},
   processes |->
     {p \in DOMAIN ProcessInstance : InAllowed(rq, rq.allowedProcessIds, p)},
   stepInstances |-> {},
   queries |->
     {q \in ProcessQA : InAllowed(rq, rq.allowedProcessIds, q.processId)},
   signedDocuments |->
     {x \in DocumentSignature : ProcessDocumentAllowed(rq, x)},
   rejectedDocuments |->
     {x \in DocumentRejection : ProcessDocumentAllowed(rq, x)},
   replacedDocuments |->
     {h \in DocumentHistory :
        InAllowed(rq, rq.allowedDocumentIds, h.documentId)}]

\* Every query of getWorkflowAnalysis names the requested workflow and, for
\* a non-admin, the allowed processes (and documents).
getWorkflowAnalysisReport(rq) ==
  LET OfWorkflow(p) ==
        /\ ProcessInstance[p].workflowId = rq.workflowId
        /\ InAllowed(rq, rq.allowedProcessIds, p)
      OfDocument(d) == InAllowed(rq, rq.allowedDocumentIds, d)
  IN [workflows |-> {rq.workflowId},
      processes |-> {p \in DOMAIN ProcessInstance : OfWorkflow(p)},
      stepInstances |->
        {si \in ProcessStepInstance : OfWorkflow(si.processId)},
      queries |-> {q \in ProcessQA : OfWorkflow(q.processId)},
      signedDocuments |->
        {x \in DocumentSignature :
           OfWorkflow(x.processId) /\ OfDocument(x.documentId)},
      rejectedDocuments |->
        {x \in DocumentRejection :
           OfWorkflow(x.processId) /\ OfDocument(x.documentId)},
      replacedDocuments |->
        {h \in DocumentHistory :
           OfWorkflow(h.processId) /\ OfDocument(h.documentId)}]

AfterQueries(rq) ==
  [Respond(Await(rq, "done"), 200) EXCEPT
     !.report = CASE rq.endpoint = "getNumbers" -> getNumbersReport
                  [] rq.endpoint = "getDetails" -> getDetailsReport(rq)
                  [] OTHER -> getWorkflowAnalysisReport(rq)]

\* The report queries resolved and the handler answers 200.
RunQueries(r) ==
  /\ req[r].pc = "queries"
  /\ req' = [req EXCEPT ![r] = AfterQueries(req[r])]
  /\ UNCHANGED <<store, call, walk>>

Resolvers ==
  {"getUserRolesAndDepartments", "getAllowedDocumentIds",
   "getAllowedWorkflowIds", "getAllowedProcessIds"}

StoreCalls ==
  {"isUserAdmin", "getUserRolesAndDepartments", "getAllowedDocumentIds",
   "getAllowedWorkflowIds", "getAllowedProcessIds", "findWorkflow", "queries"}

\* Variant: a rejected call is skipped and the handler goes on to the report
\* queries with what it has.
StoreFailure_bestEffort(r) ==
  /\ req[r].pc \in StoreCalls
  /\ req' = [req EXCEPT ![r] =
               IF req[r].pc \in Resolvers
               THEN [req[r] EXCEPT !.pc = "queries", !.threw = req[r].pc]
               ELSE Catch(req[r], req[r].pc)]
  /\ UNCHANGED <<store, call, walk>>

\* The awaited store call rejects: the catch block answers 500.
StoreFailure(r) ==
  /\ req[r].pc \in StoreCalls
  /\ req' = [req EXCEPT ![r] = Catch(req[r], req[r].pc)]
  /\ UNCHANGED <<store, call, walk>>

\* The stores of the handler runs: every combination of the admin flags of
\* user 1 and role 1, with a chain of documents, one grant, one assignment
\* and one step instance.
InitFacadeGrants ==
  {{}, {Grant(1, 1, NoId, "FULL", {})},
   {Grant(MaxDocs, NoId, 1, "STANDARD", {"READ"})}}

InitFacadeAssignments ==
  {{}, {Assignment(1, "ROLE", {}, {1})}, {Assignment(1, "USER", {1}, {})}}

InitFacadeStepInstances ==
  {{}, {StepInstance(MaxProcesses, 1, NoId, NoId)}}

Init ==
  /\ \E adm \in BOOLEAN, rs \in SUBSET RoleIds :
       User = [PlainUsers EXCEPT ![1].isAdmin = adm, ![1].roles = rs]
  /\ \E f \in [isAdmin : BOOLEAN, isRootLevel : BOOLEAN] :
       Role = [PlainRoles EXCEPT ![1] = f]
  /\ \E authored \in SubsetsUpTo({MaxDocs}, 1) :
       Document = MakeDocuments(ChainForest, authored)
  /\ DocumentAccess \in InitFacadeGrants
  /\ Workflow = WorkflowIds
  /\ WorkflowStep = PlainSteps
  /\ WorkflowAssignment \in InitFacadeAssignments
  /\ ProcessInstance = PlainProcesses
  /\ ProcessStepInstance \in InitFacadeStepInstances
  /\ req = [r \in {1} |-> IdleRequest]
  /\ InitReportRows
  /\ call = NoCalls
  /\ walk = IdleWalk

Next ==
  \/ \E r \in DOMAIN req : Receive(r)
  \/ \E r \in DOMAIN req : VerifyUser(r)
  \/ \E r \in DOMAIN req : IsUserAdmin(r)
  \/ \E r \in DOMAIN req : GetUserRolesAndDepartments(r)
  \/ \E r \in DOMAIN req : GetAllowedDocumentIds(r)
  \/ \E r \in DOMAIN req : GetAllowedWorkflowIds(r)
  \/ \E r \in DOMAIN req : GetAllowedProcessIds(r)
  \/ \E r \in DOMAIN req : FindWorkflow(r)
  \/ \E r \in DOMAIN req : RunQueries(r)
  \/ \E r \in DOMAIN req : StoreFailure(r)

Spec == Init /\ [][Next]_vars

\* Two activations of the handlers over one unchanged store: users 1 and 2
\* hold different grants, assignments and step instances, and the second
\* workflow is assigned either to role 2 or to user 1 as well.
InitTwo ==
  /\ \E adm \in BOOLEAN : User = [PlainUsers EXCEPT ![1].isAdmin = adm]
  /\ Role = PlainRoles
  /\ Document = MakeDocuments(ChainForest, {1})
  /\ DocumentAccess = {Grant(MaxDocs - 1, 1, NoId, "FULL", {}),
                       Grant(2, NoId, 2, "STANDARD", {"READ"})}
  /\ Workflow = WorkflowIds
  /\ WorkflowStep = PlainSteps
  /\ \E second \in {Assignment(2, "ROLE", {}, {2}),
                     Assignment(2, "USER", {1}, {})} :
       WorkflowAssignment = {Assignment(1, "USER", {1}, {}), second}
  /\ ProcessInstance = PlainProcesses
  /\ ProcessStepInstance \in InitFacadeStepInstances
  /\ req = [r \in {1, 2} |-> IdleRequest]
  /\ InitReportRows
  /\ call = NoCalls
  /\ walk = IdleWalk

SpecTwo == InitTwo /\ [][Next]_vars

(***************************************************************************)
(* getAllowedDocumentIds query by query.  walk.pc is the awaited query or  *)
(* the loop head the call stands at; walk.stack holds the pending calls of *)
(* getAllChildren, each with the children its loop has still to visit;     *)
(* walk.parents holds the elements of the `parents` array of getParents,   *)
(* which is only ever read through includes().                             *)
(***************************************************************************)
WalkGetAllowedDocumentIds ==
  /\ walk.pc = "idle"
  /\ \E userId \in DOMAIN User :
       walk' = [IdleWalk EXCEPT !.pc = "findAccesses", !.userId = userId,
                                !.snapshots = {Document}]
  /\ UNCHANGED <<store, req, call>>

\* prisma.documentAccess.findMany resolved.
WalkFindAccesses ==
  /\ walk.pc = "findAccesses"
  /\ LET userRoles == {[roleId |-> r] : r \in User[walk.userId].roles}
         accesses == userDocumentAccesses(walk.userId, userRoles)
     IN walk' = [walk EXCEPT !.pc = "forAccess", !.accesses = accesses,
                             !.todo = accesses]
  /\ UNCHANGED <<store, req, call>>

\* The head of `for (const access of userDocumentAccesses)`.
WalkForAccess ==
  /\ walk.pc = "forAccess"
  /\ IF walk.todo = {}
     THEN walk' = [walk EXCEPT !.pc = "findUserDocuments"]
     ELSE \E access \in walk.todo :
            LET rest == [walk EXCEPT !.todo = @ \ {access}]
                added == [rest EXCEPT !.allowed = @ \cup {access.documentId}]
            IN walk' =
                 IF access.accessLevel = "FULL"
                 THEN [added EXCEPT !.pc = "findChildren",
                                    !.parentId = access.documentId]
                 ELSE IF access.accessType \cap AccessTypes # {}
                 THEN [added EXCEPT !.pc = "findDocument",
                                    !.currentDoc = access.documentId,
                                    !.parents = {}]
                 ELSE rest
  /\ UNCHANGED <<store, req, call>>

\* prisma.document.findMany({where: {parentId}}) resolved in getAllChildren.
WalkFindChildren ==
  /\ walk.pc = "findChildren"
  /\ LET children == {d \in DOMAIN Document :
                        Document[d].parentId = walk.parentId}
     IN walk' = [walk EXCEPT
                   !.pc = "forChild",
                   !.stack = Append(@, [parentId |-> walk.parentId,
                                        children |-> children]),
                   !.parentId = NoId]
  /\ UNCHANGED <<store, req, call>>

\* The head of `for (const child of children)` in the innermost pending
\* call of getAllChildren: the next child is added and descended into, or
\* the call returns.
WalkForChild ==
  /\ walk.pc = "forChild"
  /\ LET n == Len(walk.stack)
         top == walk.stack[n]
     IN IF top.children = {}
        THEN walk' = [walk EXCEPT
                        !.stack = SubSeq(@, 1, n - 1),
                        !.pc = IF n = 1 THEN "forAccess" ELSE "forChild"]
        ELSE \E child \in top.children :
               walk' = [walk EXCEPT
                          !.allowed = @ \cup {child},
                          !.stack[n].children = @ \ {child},
                          !.pc = "findChildren",
                          !.parentId = child]
  /\ UNCHANGED <<store, req, call>>

\* Variant: the loop of getParents looks the same document up again
\* instead of its parent.
WalkFindDocument_sameDocument ==
  /\ walk.pc = "findDocument"
  /\ LET found == walk.currentDoc \in DOMAIN Document
         parentId == IF found THEN Document[walk.currentDoc].parentId
                     ELSE NoId
     IN walk' =
          IF parentId # NoId
          THEN [walk EXCEPT !.parents = @ \cup {parentId}]
          ELSE [walk EXCEPT !.pc = "forAccess", !.parents = {},
                            !.currentDoc = NoId]
  /\ UNCHANGED <<store, req, call>>

\* prisma.document.findUnique resolved in getParents: the loop goes on to
\* the parent, or getParents returns and hasFullAccessParent adds the
\* granted document again.
WalkFindDocument ==
  /\ walk.pc = "findDocument"
  /\ LET found == walk.currentDoc \in DOMAIN Document
         parentId == IF found THEN Document[walk.currentDoc].parentId
                     ELSE NoId
     IN walk' =
          IF parentId # NoId
          THEN [walk EXCEPT !.parents = @ \cup {parentId},
                            !.currentDoc = parentId]
          ELSE [walk EXCEPT !.pc = "forAccess", !.parents = {},
                            !.currentDoc = NoId]
  /\ UNCHANGED <<store, req, call>>

\* prisma.document.findMany({where: {createdById}}) resolved: the call
\* returns.
WalkFindUserDocuments ==
  /\ walk.pc = "findUserDocuments"
  /\ walk' = [walk EXCEPT !.pc = "done",
                          !.allowed = @ \cup userDocuments(walk.userId)]
  /\ UNCHANGED <<store, req, call>>

WalkQueries ==
  {"findAccesses", "findChildren", "findDocument", "findUserDocuments"}

\* The awaited query rejects and the call throws.
WalkStoreFailure ==
  /\ walk.pc \in WalkQueries
  /\ walk' = [IdleWalk EXCEPT !.pc = "threw", !.userId = walk.userId,
                              !.accesses = walk.accesses,
                              !.snapshots = walk.snapshots]
  /\ UNCHANGED <<store, req, call>>

RECURSIVE DescendantsIn(_, _)
DescendantsIn(documents, S) ==
  LET T == S \cup {d \in DOMAIN documents : documents[d].parentId \in S}
  IN IF T = S THEN S ELSE DescendantsIn(documents, T)

SubtreeIn(documents, a) == DescendantsIn(documents, {a})

\* The surrounding CRUD system moves a document to another folder while
\* the call is in flight; the hierarchy stays a forest.
MoveDocument ==
  /\ walk.pc \notin {"idle", "done", "threw"}
  /\ walk.mutations < MaxMutations
  /\ \E d \in DOMAIN Document :
       \E p \in ((DOMAIN Document \cup {NoId}) \ SubtreeIn(Document, d))
                  \ {Document[d].parentId} :
         /\ Document' = [Document EXCEPT ![d].parentId = p]
         /\ walk' = [walk EXCEPT !.mutations = @ + 1,
                                 !.snapshots = @ \cup {Document'}]
  /\ UNCHANGED <<User, Role, DocumentAccess, WorkflowStep, Workflow,
                 WorkflowAssignment, ProcessInstance, ProcessStepInstance,
                 ProcessQA, DocumentSignature, DocumentRejection,
                 DocumentHistory, req, call>>

WalkStep ==
  \/ WalkGetAllowedDocumentIds
  \/ WalkFindAccesses
  \/ WalkForAccess
  \/ WalkFindChildren
  \/ WalkForChild
  \/ WalkFindDocument
  \/ WalkFindUserDocuments

NextWalk ==
  \/ WalkGetAllowedDocumentIds
  \/ WalkFindAccesses
  \/ WalkForAccess
  \/ WalkFindChildren
  \/ WalkForChild
  \/ WalkFindDocument
  \/ WalkFindUserDocuments
  \/ WalkStoreFailure

NextWalkMoving ==
  \/ WalkGetAllowedDocumentIds
  \/ WalkFindAccesses
  \/ WalkForAccess
  \/ WalkFindChildren
  \/ WalkForChild
  \/ WalkFindDocument
  \/ WalkFindUserDocuments
  \/ WalkStoreFailure
  \/ MoveDocument

\* The chain 1 <- 2 <- ... with the parentId of document 1 set to document
\* k > 1: documents 1..k form a cycle and the others hang below it (k = 0:
\* the intact chain).
CorruptedChain(k) == [d \in DocIds |-> IF d = 1 THEN k ELSE d - 1]

\* Hierarchies with an injected cycle.  User 1 holds up to MaxGrants grants:
\* STANDARD READ grants anywhere, FULL grants below the cycle.  (A FULL
\* grant on a member of the cycle makes getAllChildren recurse without end
\* through an unbounded chain of pending calls.)
InitCyclic ==
  /\ InitPlainIdentity
  /\ \E k \in {0} \cup 2..MaxDocs :
       /\ Document = MakeDocuments(CorruptedChain(k), {})
       /\ DocumentAccess \in
            SubsetsUpTo({Grant(g, 1, NoId, "STANDARD", {"READ"}) : g \in DocIds}
                        \cup {Grant(g, 1, NoId, "FULL", {}) :
                                g \in (k + 1)..MaxDocs},
                        MaxGrants)
  /\ InitPlainWorkflows /\ InitPlainProcesses
  /\ InitReportRows
  /\ req = NoRequests /\ call = NoCalls /\ walk = IdleWalk

\* The event loop resumes the call whenever the query it awaits has
\* resolved, and the store answers every query: the steps of the call are
\* weakly fair.  A rejection of a query is possible but never required.
SpecCyclic == InitCyclic /\ [][NextWalk]_vars /\ WF_vars(WalkStep)

\* Acyclic hierarchies: every forest with at most one FULL or READ grant of
\* user 1, and the chain and the bushy forest with up to MaxGrants of them.
InitAcyclic ==
  /\ InitPlainIdentity
  /\ LET rows == {Grant(g, 1, NoId, k[1], k[2]) :
                    g \in DocIds,
                    k \in {<<"FULL", {}>>, <<"STANDARD", {"READ"}>>}}
     IN \/ /\ \E f \in Forests : Document = MakeDocuments(f, {})
           /\ DocumentAccess \in SubsetsUpTo(rows, 1)
        \/ /\ \E f \in {ChainForest, BushyForest} :
                Document = MakeDocuments(f, {})
           /\ DocumentAccess \in SubsetsUpTo(rows, MaxGrants)
  /\ InitPlainWorkflows /\ InitPlainProcesses
  /\ InitReportRows
  /\ req = NoRequests /\ call = NoCalls /\ walk = IdleWalk

SpecAcyclic == InitAcyclic /\ [][NextWalk]_vars /\ WF_vars(WalkStep)

InitMoving ==
  /\ InitPlainIdentity
  /\ \E parentOf \in {ChainForest, BushyForest} :
       Document = MakeDocuments(parentOf, {})
  /\ DocumentAccess \in
       {{Grant(1, 1, NoId, "FULL", {})},
        {Grant(2, 1, NoId, "FULL", {})},
        {Grant(1, 1, NoId, "FULL", {}),
         Grant(MaxDocs, 1, NoId, "STANDARD", {"READ"})}}
  /\ InitPlainWorkflows /\ InitPlainProcesses
  /\ InitReportRows
  /\ req = NoRequests /\ call = NoCalls /\ walk = IdleWalk

SpecMoving == InitMoving /\ [][NextWalkMoving]_vars

(***************************************************************************)
(* Properties.                                                             *)
(***************************************************************************)
FacadeEndpoints == {"getDetails", "getWorkflowAnalysis"}

\* The grants held by a user directly or through one of the user's roles.
GrantSet(userId) ==
  {g \in DocumentAccess :
     g.userId = userId \/ g.roleId \in User[userId].roles}

RECURSIVE Ancestors(_)
Ancestors(d) ==
  IF Document[d].parentId = NoId THEN {}
  ELSE {Document[d].parentId} \cup Ancestors(Document[d].parentId)

Subtree(a) == {a} \cup {d \in DOMAIN Document : a \in Ancestors(d)}

Depth(d) == Cardinality(Ancestors(d))

CallsOf(fn) == {i \in 1..Len(call) : call[i].fn = fn}

\* C1: once the admin gate has returned true in getDetails or
\* getWorkflowAnalysis, isAdmin is true, the three allowed-ID sets are null
\* and none of the role, document, workflow and process resolvers has run,
\* whatever grants and assignments the store holds.
AdminBypassTotality ==
  \A r \in DOMAIN req :
    ( /\ req[r].endpoint \in FacadeEndpoints
      /\ "isUserAdmin" \in req[r].ran
      /\ isUserAdmin(req[r].userData.id) )
    => /\ req[r].isAdmin
       /\ req[r].allowedDocumentIds = Null
       /\ req[r].allowedWorkflowIds = Null
       /\ req[r].allowedProcessIds = Null
       /\ req[r].ran \cap Resolvers = {}

AdminBypassWitness ==
  \E r \in DOMAIN req :
    /\ req[r].endpoint = "getWorkflowAnalysis"
    /\ req[r].status = 200
    /\ req[r].isAdmin
    /\ ~ User[req[r].userData.id].isAdmin
    /\ GrantSet(req[r].userData.id) # {}
    /\ WorkflowAssignment # {}

FullGrantPropagates ==
  \A i \in CallsOf("getAllowedDocumentIds") :
    \A g \in GrantSet(call[i].userId) :
      g.accessLevel = "FULL" => Subtree(g.documentId) \subseteq call[i].retIds

FullGrantWitness ==
  \E i \in CallsOf("getAllowedDocumentIds") :
    \E g \in GrantSet(call[i].userId) :
      /\ g.accessLevel = "FULL"
      /\ g.roleId # NoId
      /\ \E d \in Subtree(g.documentId) : Depth(d) = Depth(g.documentId) + 3
      /\ Subtree(g.documentId) = call[i].retIds

\* C4: a user whose only grant is a STANDARD grant with accessType READ on
\* document A and who created no document gets exactly {A}, whatever lies
\* below A.
StandardGrantDoesNotPropagate ==
  \A i \in CallsOf("getAllowedDocumentIds") :
    \A g \in GrantSet(call[i].userId) :
      ( /\ GrantSet(call[i].userId) = {g}
        /\ g.accessLevel = "STANDARD"
        /\ g.accessType = {"READ"}
        /\ \A d \in DOMAIN Document :
             Document[d].createdById # call[i].userId )
      => call[i].retIds = {g.documentId}

StandardGrantWitness ==
  \E i \in CallsOf("getAllowedDocumentIds") :
    \E g \in GrantSet(call[i].userId) :
      /\ GrantSet(call[i].userId) = {g}
      /\ g.accessLevel = "STANDARD"
      /\ g.accessType = {"READ"}
      /\ \A d \in DOMAIN Document : Document[d].createdById # call[i].userId
      /\ \E d \in Subtree(g.documentId) : Depth(d) = Depth(g.documentId) + 2
      /\ call[i].retIds = {g.documentId}

\* C5: every document created by the user is in the result of
\* getAllowedDocumentIds, with or without grants on it.
CreatorBypass ==
  \A i \in CallsOf("getAllowedDocumentIds") :
    \A d \in DOMAIN Document :
      Document[d].createdById = call[i].userId => d \in call[i].retIds

CreatorBypassWitness ==
  \E i \in CallsOf("getAllowedDocumentIds") :
    /\ GrantSet(call[i].userId) = {}
    /\ \E g \in DocumentAccess : g.accessLevel = "FULL"
    /\ \E d \in DOMAIN Document :
         /\ Document[d].createdById = call[i].userId
         /\ Document[d].parentId # NoId
         /\ call[i].retIds = {d}

\* C6: once the document resolver has returned for a non-admin user who
\* holds no grant and created no document, allowedDocumentIds is the empty
\* array and not null.
NoAccessIsNotAdmin ==
  \A r \in DOMAIN req :
    ( /\ "getAllowedDocumentIds" \in req[r].ran
      /\ ~ isUserAdmin(req[r].userData.id)
      /\ GrantSet(req[r].userData.id) = {}
      /\ \A d \in DOMAIN Document :
           Document[d].createdById # req[r].userData.id )
    => /\ ~ req[r].allowedDocumentIds.isNull
       /\ req[r].allowedDocumentIds.ids = {}
       /\ req[r].allowedDocumentIds # Null

NoAccessWitness ==
  \E r \in DOMAIN req :
    /\ req[r].status = 200
    /\ req[r].endpoint = "getDetails"
    /\ ~ req[r].isAdmin
    /\ DocumentAccess # {}
    /\ req[r].allowedDocumentIds = Arr({})

\* C7: the result of getAllowedDocumentIds is exactly the union of the
\* subtrees of the FULL-granted documents, the documents with a STANDARD
\* grant naming READ, DOWNLOAD or EDIT, and the documents the user created,
\* over the grants the user holds directly or through a role.
UnionOfSubtrees(docs) == {d \in DOMAIN Document : \E a \in docs : d \in Subtree(a)}

DocumentUnionExact ==
  \A i \in CallsOf("getAllowedDocumentIds") :
    LET G == GrantSet(call[i].userId)
    IN call[i].retIds =
         UnionOfSubtrees({g.documentId : g \in {x \in G : x.accessLevel = "FULL"}})
         \cup {g.documentId :
                 g \in {x \in G : /\ x.accessLevel = "STANDARD"
                                  /\ x.accessType \cap AccessTypes # {}}}
         \cup {d \in DOMAIN Document : Document[d].createdById = call[i].userId}

DocumentUnionWitness ==
  \E i \in CallsOf("getAllowedDocumentIds") :
    LET G == GrantSet(call[i].userId)
    IN \E g \in G, h \in G, d \in DOMAIN Document, x \in DOMAIN Document :
         /\ g.accessLevel = "FULL"
         /\ h.accessLevel = "STANDARD"
         /\ h.documentId \notin Subtree(g.documentId)
         /\ Document[d].createdById = call[i].userId
         /\ d \notin Subtree(g.documentId) \cup {h.documentId}
         /\ Document[x].parentId = h.documentId
         /\ x \notin call[i].retIds
         /\ call[i].retIds = {g.documentId, h.documentId, d}

\* C8: getAllowedWorkflowIds returns exactly the workflows of the steps that
\* carry an assignment matching the user: USER-type naming the user, or
\* ROLE-type or DEPARTMENT-type whose selectedRoles meets the user's roles.
MatchesUser(a, c) ==
  \/ a.assigneeType = "USER" /\ c.userId \in a.assigneeIds
  \/ /\ a.assigneeType \in {"ROLE", "DEPARTMENT"}
     /\ \E ro \in c.userRoleIds : ro \in a.selectedRoles

WorkflowUnionExact ==
  \A i \in CallsOf("getAllowedWorkflowIds") :
    /\ call[i].retIds \subseteq Workflow
    /\ \A w \in Workflow :
         w \in call[i].retIds <=>
           \E a \in WorkflowAssignment :
             /\ WorkflowStep[a.stepId].workflowId = w
             /\ MatchesUser(a, call[i])

WorkflowUnionWitness ==
  \E i \in CallsOf("getAllowedWorkflowIds") :
    \E a \in WorkflowAssignment, b \in WorkflowAssignment :
      /\ a.assigneeType = "ROLE"
      /\ a.assigneeIds = {}
      /\ a.selectedRoles \cap call[i].userRoleIds # {}
      /\ b.assigneeType = "USER"
      /\ b.selectedRoles \cap call[i].userRoleIds # {}
      /\ call[i].userId \notin b.assigneeIds
      /\ WorkflowStep[b.stepId].workflowId # WorkflowStep[a.stepId].workflowId
      /\ call[i].retIds = {WorkflowStep[a.stepId].workflowId}

\* C9: two calls of getAllowedWorkflowIds over the same store with the same
\* user and the same role ids return the same set, whatever department ids
\* each call is given.
DepartmentIdsIgnored ==
  \A i \in CallsOf("getAllowedWorkflowIds"),
     j \in CallsOf("getAllowedWorkflowIds") :
    ( /\ call[i].userId = call[j].userId
      /\ call[i].userRoleIds = call[j].userRoleIds )
    => call[i].retIds = call[j].retIds

DepartmentIdsWitness ==
  /\ Len(call) = 2
  /\ call[1].userDepartmentIds # call[2].userDepartmentIds
  /\ \E a \in WorkflowAssignment :
       /\ a.assigneeType = "DEPARTMENT"
       /\ a.selectedRoles \cap call[1].userRoleIds = {}
       /\ a.selectedRoles \cap call[2].userDepartmentIds # {}
       /\ a.selectedRoles \cap call[1].userDepartmentIds = {}
  /\ call[1].retIds = {}
  /\ call[2].retIds = {}

\* C10: every process instance of a workflow in the allowed-workflow set is
\* in the result of getAllowedProcessIds, also when the user neither
\* initiated it nor is assigned a step of it.
WorkflowAccessSubsumes ==
  \A i \in CallsOf("getAllowedProcessIds") :
    \A p \in DOMAIN ProcessInstance :
      ProcessInstance[p].workflowId \in call[i].allowedWorkflowIds
        => p \in call[i].retIds

WorkflowAccessWitness ==
  \E i \in CallsOf("getAllowedProcessIds") :
    \E p \in DOMAIN ProcessInstance :
      /\ ProcessInstance[p].workflowId \in call[i].allowedWorkflowIds
      /\ ProcessInstance[p].initiatorId # call[i].userId
      /\ \A si \in ProcessStepInstance :
           si.processId = p =>
             /\ si.assignedTo # call[i].userId
             /\ si.roleId \notin call[i].userRoleIds
             /\ si.departmentId \notin call[i].userDepartmentIds
      /\ \E si \in ProcessStepInstance : si.processId = p
      /\ call[i].retIds = {p}

\* C11: the result of getAllowedProcessIds is exactly the union of the
\* processes the user initiated, the processes with a step instance assigned
\* to the user, to one of the user's roles or to one of the user's
\* departments, and the processes of the allowed workflows.
ProcessUnionExact ==
  \A i \in CallsOf("getAllowedProcessIds") :
    \A p \in DOMAIN ProcessInstance :
      p \in call[i].retIds <=>
        \/ ProcessInstance[p].initiatorId = call[i].userId
        \/ \E si \in ProcessStepInstance :
             /\ si.processId = p
             /\ \/ si.assignedTo = call[i].userId
                \/ \E ro \in call[i].userRoleIds : si.roleId = ro
                \/ \E de \in call[i].userDepartmentIds : si.departmentId = de
        \/ \E w \in call[i].allowedWorkflowIds :
             ProcessInstance[p].workflowId = w

ProcessUnionWitness ==
  \E i \in CallsOf("getAllowedProcessIds") :
    \E p \in DOMAIN ProcessInstance, q \in DOMAIN ProcessInstance :
      /\ call[i].retIds = {p}
      /\ q # p
      /\ call[i].allowedWorkflowIds # {}
      /\ ProcessInstance[p].workflowId \notin call[i].allowedWorkflowIds
      /\ ProcessInstance[p].initiatorId # call[i].userId
      /\ \E si \in ProcessStepInstance :
           /\ si.processId = p
           /\ si.assignedTo = NoId
           /\ si.roleId = NoId
           /\ si.departmentId \in call[i].userDepartmentIds

\* A call the handler has begun: it is awaited, has resolved or has thrown.
Begun(rq, c) == rq.pc = c \/ c \in rq.ran \/ rq.threw = c

NonAdminResolved(rq) ==
  /\ rq.endpoint \in FacadeEndpoints
  /\ "isUserAdmin" \in rq.ran
  /\ ~ rq.isAdmin

\* C14: in getWorkflowAnalysis for a non-admin whose allowed workflows do
\* not include the requested one, the handler answers 403 as soon as the
\* workflow resolver has returned, and neither the document resolver, the
\* process resolver, the workflow lookup nor any report query has begun.
WorkflowDeniedEarly ==
  \A r \in DOMAIN req :
    LET rq == req[r]
        denied == /\ NonAdminResolved(rq)
                  /\ rq.endpoint = "getWorkflowAnalysis"
                  /\ "getAllowedWorkflowIds" \in rq.ran
                  /\ rq.workflowId \notin rq.allowedWorkflowIds.ids
    IN /\ denied =>
            /\ rq.pc = "done"
            /\ rq.status = 403
            /\ \A c \in {"getAllowedDocumentIds", "getAllowedProcessIds",
                         "findWorkflow", "queries"} : ~ Begun(rq, c)
       /\ rq.status = 403 => denied

WorkflowDeniedWitness ==
  \E r \in DOMAIN req :
    /\ req[r].status = 403
    /\ req[r].workflowId \in Workflow
    /\ req[r].allowedWorkflowIds.ids # {}

\* C15: in getWorkflowAnalysis for a non-admin who passed the workflow
\* check, every process in allowedProcessIds is an instance of the
\* requested workflow.
ScopedProcessesBelongToWorkflow ==
  \A r \in DOMAIN req :
    (/\ req[r].endpoint = "getWorkflowAnalysis"
     /\ "getAllowedProcessIds" \in req[r].ran)
    => \A p \in req[r].allowedProcessIds.ids :
         ProcessInstance[p].workflowId = req[r].workflowId

\* C16: when the authenticated user does not exist, the failure of
\* getUserRolesAndDepartments is answered with 404.
MissingUserIsNotFound ==
  \A r \in DOMAIN req :
    (/\ req[r].endpoint \in FacadeEndpoints
     /\ req[r].userData.id \notin DOMAIN User
     /\ req[r].threw = "getUserRolesAndDepartments")
    => req[r].status = 404

\* C17: a resolver that fails for a non-admin ends the request with 500
\* and no report query begins; the report queries of a non-admin begin only
\* with all three allowed-ID sets computed.
NoPartialScope ==
  \A r \in DOMAIN req :
    LET rq == req[r]
    IN /\ rq.threw \in Resolvers =>
            /\ rq.pc = "done"
            /\ rq.status = 500
            /\ ~ Begun(rq, "queries")
       /\ (NonAdminResolved(rq) /\ Begun(rq, "queries")) =>
            /\ ~ rq.allowedDocumentIds.isNull
            /\ ~ rq.allowedWorkflowIds.isNull
            /\ ~ rq.allowedProcessIds.isNull

NoPartialScopeWitness ==
  \E r \in DOMAIN req :
    /\ req[r].endpoint = "getDetails"
    /\ req[r].threw = "getAllowedWorkflowIds"
    /\ req[r].allowedDocumentIds = Arr({MaxDocs})
    /\ req[r].allowedProcessIds.isNull
    /\ req[r].status = 500

\* C19: in getDetails for a non-admin the role resolver has returned before
\* the document and workflow resolvers begin, the workflow resolver has
\* returned before the process resolver begins, the processes of the
\* workflows it returned are in the process resolver's result, and the
\* report queries begin with the three sets computed.
ResolverOrder ==
  \A r \in DOMAIN req :
    LET rq == req[r]
    IN (rq.endpoint = "getDetails" /\ NonAdminResolved(rq)) =>
         /\ Begun(rq, "getAllowedDocumentIds")
              => "getUserRolesAndDepartments" \in rq.ran
         /\ Begun(rq, "getAllowedWorkflowIds")
              => "getUserRolesAndDepartments" \in rq.ran
         /\ Begun(rq, "getAllowedProcessIds")
              => "getAllowedWorkflowIds" \in rq.ran
         /\ "getAllowedProcessIds" \in rq.ran
              => \A p \in DOMAIN ProcessInstance :
                   ProcessInstance[p].workflowId \in rq.allowedWorkflowIds.ids
                     => p \in rq.allowedProcessIds.ids
         /\ Begun(rq, "queries")
              => /\ {"getAllowedDocumentIds", "getAllowedWorkflowIds",
                     "getAllowedProcessIds"} \subseteq rq.ran
                 /\ ~ rq.allowedDocumentIds.isNull
                 /\ ~ rq.allowedWorkflowIds.isNull
                 /\ ~ rq.allowedProcessIds.isNull

ResolverOrderWitness ==
  \E r \in DOMAIN req :
    /\ req[r].endpoint = "getDetails"
    /\ req[r].status = 200
    /\ ~ req[r].isAdmin
    /\ \E p \in req[r].allowedProcessIds.ids :
         /\ ProcessInstance[p].workflowId \in req[r].allowedWorkflowIds.ids
         /\ ProcessInstance[p].initiatorId # req[r].userData.id

\* The scope of a user as the store defines it, without reference to any
\* activation.
DocumentScope(userId) ==
  LET G == GrantSet(userId)
  IN UnionOfSubtrees({g.documentId : g \in {x \in G : x.accessLevel = "FULL"}})
     \cup {g.documentId :
             g \in {x \in G : /\ x.accessLevel = "STANDARD"
                              /\ x.accessType \cap AccessTypes # {}}}
     \cup {d \in DOMAIN Document : Document[d].createdById = userId}

WorkflowScope(userId) ==
  {w \in Workflow :
     \E a \in WorkflowAssignment :
       /\ WorkflowStep[a.stepId].workflowId = w
       /\ \/ a.assigneeType = "USER" /\ userId \in a.assigneeIds
          \/ /\ a.assigneeType \in {"ROLE", "DEPARTMENT"}
             /\ a.selectedRoles \cap User[userId].roles # {}}

ProcessScope(userId, workflows) ==
  {p \in DOMAIN ProcessInstance :
     \/ ProcessInstance[p].initiatorId = userId
     \/ ProcessInstance[p].workflowId \in workflows
     \/ \E si \in ProcessStepInstance :
          /\ si.processId = p
          /\ \/ si.assignedTo = userId
             \/ si.roleId \in User[userId].roles
             \/ si.departmentId \in User[userId].branches}

SameCall(a, b) ==
  /\ a.endpoint = b.endpoint
  /\ a.userData = b.userData
  /\ a.workflowId = b.workflowId

NoSharedState ==
  \A r \in DOMAIN req :
    LET rq == req[r]
        userId == rq.userData.id
    IN NonAdminResolved(rq) =>
         /\ "getAllowedDocumentIds" \in rq.ran
              => rq.allowedDocumentIds = Arr(DocumentScope(userId))
         /\ "getAllowedWorkflowIds" \in rq.ran
              => rq.allowedWorkflowIds = Arr(WorkflowScope(userId))
         /\ "getAllowedProcessIds" \in rq.ran
              => rq.allowedProcessIds =
                   Arr(ProcessScope(userId,
                                    IF rq.endpoint = "getDetails"
                                    THEN WorkflowScope(userId)
                                    ELSE {rq.workflowId}))

NoSharedStateWitness ==
  /\ req[1].userData.id \in DOMAIN User
  /\ req[2].userData.id \in DOMAIN User
  /\ req[1].userData.id # req[2].userData.id
  /\ req[1].pc = "getAllowedProcessIds"
  /\ req[2].pc = "getAllowedWorkflowIds"
  /\ req[1].allowedWorkflowIds.ids # {}
  /\ req[2].allowedDocumentIds.ids # {}
  /\ req[1].allowedDocumentIds.ids \ req[2].allowedDocumentIds.ids # {}
  /\ req[2].allowedDocumentIds.ids \ req[1].allowedDocumentIds.ids # {}

RECURSIVE AncestorsIn(_, _)
AncestorsIn(documents, S) ==
  LET T == S \cup ({documents[d].parentId : d \in S \cap DOMAIN documents}
                   \ {NoId})
  IN IF T = S THEN S ELSE AncestorsIn(documents, T)

StrictAncestorsIn(documents, d) ==
  AncestorsIn(documents, {documents[d].parentId} \ {NoId})

OnCycle(documents, d) == d \in StrictAncestorsIn(documents, d)

\* The traversal that getAllowedDocumentIds starts from a grant meets a
\* parentId cycle: the descent below a FULL grant, the ancestor chain above
\* a READ / DOWNLOAD / EDIT grant.
CycleReachable(access) ==
  IF access.accessLevel = "FULL"
  THEN \E d \in SubtreeIn(Document, access.documentId) : OnCycle(Document, d)
  ELSE /\ access.accessType \cap AccessTypes # {}
       /\ \E d \in {access.documentId}
                   \cup StrictAncestorsIn(Document, access.documentId) :
            OnCycle(Document, d)

\* C13: when a parentId cycle is reachable from a document granted to the
\* user, the call of getAllowedDocumentIds does not go on for ever: it ends
\* by throwing (the Internal failure).
CycleSafety ==
  (walk.pc = "forAccess" /\ \E a \in walk.accesses : CycleReachable(a))
    ~> (walk.pc = "threw")

\* The scope the store defines over one snapshot of the hierarchy.
DocumentScopeIn(documents, accesses, userId) ==
  UNION {SubtreeIn(documents, a.documentId) :
           a \in {x \in accesses : x.accessLevel = "FULL"}}
  \cup {a.documentId :
          a \in {x \in accesses : /\ x.accessLevel = "STANDARD"
                                  /\ x.accessType \cap AccessTypes # {}}}
  \cup {d \in DOMAIN documents : documents[d].createdById = userId}

\* C18: the set a call of getAllowedDocumentIds returns is the scope over
\* one snapshot of the hierarchy that existed during the call, whatever
\* the store underwent meanwhile.
SnapshotConsistent ==
  walk.pc = "done" =>
    \E documents \in walk.snapshots :
      walk.allowed = DocumentScopeIn(documents, walk.accesses, walk.userId)

\* The original statement of C22: an authenticated getWorkflowAnalysis
\* request for a workflow that does not exist, answered without an internal
\* failure, is answered 404 whoever the user is.
MissingWorkflowIsNotFound ==
  \A r \in DOMAIN req :
    (/\ req[r].endpoint = "getWorkflowAnalysis"
     /\ req[r].userData.authorized
     /\ req[r].workflowId \notin Workflow
     /\ req[r].pc = "done"
     /\ req[r].threw = "")
    => req[r].status = 404

\* C22: an authenticated getWorkflowAnalysis request for a workflow that
\* does not exist, answered without an internal failure, is answered 404
\* when the user is an admin and 403 when the user is not: the membership
\* check of a non-admin precedes the lookup of the workflow.
MissingWorkflowOutcome ==
  \A r \in DOMAIN req :
    (/\ req[r].endpoint = "getWorkflowAnalysis"
     /\ req[r].userData.authorized
     /\ req[r].workflowId \notin Workflow
     /\ req[r].pc = "done"
     /\ req[r].threw = "")
    => /\ req[r].isAdmin => req[r].status = 404
       /\ ~ req[r].isAdmin =>
            /\ req[r].status = 403
            /\ ~ Begun(req[r], "findWorkflow")

MissingWorkflowWitness ==
  \E r \in DOMAIN req, o \in DOMAIN User :
    /\ req[r].endpoint = "getWorkflowAnalysis"
    /\ req[r].workflowId \notin Workflow
    /\ req[r].userData.id = o
    /\ ~ req[r].isAdmin
    /\ "getAllowedWorkflowIds" \in req[r].ran
    /\ req[r].allowedWorkflowIds.ids # {}
    /\ req[r].status = 403

\* C24: in getDetails and getWorkflowAnalysis a request whose token
\* verification returned "Unauthorized" is answered 401, and neither
\* isUserAdmin nor a resolver nor the workflow lookup nor a report query
\* has begun in it.
UnauthenticatedNeverResolved ==
  \A r \in DOMAIN req :
    (/\ req[r].endpoint \in FacadeEndpoints
     /\ ~ req[r].userData.authorized
     /\ "verifyUser" \in req[r].ran)
    => /\ req[r].pc = "done"
       /\ req[r].status = 401
       /\ req[r].threw = ""
       /\ \A c \in StoreCalls : ~ Begun(req[r], c)

UnauthenticatedWitness ==
  \E r \in DOMAIN req :
    /\ req[r].endpoint = "getWorkflowAnalysis"
    /\ req[r].datesValid
    /\ req[r].workflowId \in Workflow
    /\ req[r].status = 401

\* C30: a getWorkflowAnalysis request of a user for whom isUserAdmin is
\* true never begins the workflow resolver and is never answered 403;
\* answered without an internal failure, it ends in 200 when the workflow
\* exists and in 404 when it does not.
AdminNeverForbidden ==
  \A r \in DOMAIN req :
    (/\ req[r].endpoint = "getWorkflowAnalysis"
     /\ "isUserAdmin" \in req[r].ran
     /\ isUserAdmin(req[r].userData.id))
    => /\ req[r].status # 403
       /\ ~ Begun(req[r], "getAllowedWorkflowIds")
       /\ (req[r].pc = "done" /\ req[r].threw = "") =>
            req[r].status = IF req[r].workflowId \in Workflow
                            THEN 200 ELSE 404

AdminNeverForbiddenWitness ==
  \E r \in DOMAIN req :
    /\ req[r].endpoint = "getWorkflowAnalysis"
    /\ req[r].isAdmin
    /\ req[r].status = 200
    /\ WorkflowAssignment # {}
    /\ req[r].workflowId
         \notin getAllowedWorkflowIds(req[r].userData.id,
                                      User[req[r].userData.id].roles,
                                      User[req[r].userData.id].branches)

\* C23: a request that fails internally is answered 500 with a body that
\* carries nothing of the underlying error: its message is not part of the
\* response.
GenericFailure ==
  \A r \in DOMAIN req :
    req[r].threw # "" => (req[r].status = 500 /\ req[r].details = "")

\* The user of the request exists and is no admin.
NonAdminUser(rq) ==
  /\ rq.userData.authorized
  /\ rq.userData.id \in DOMAIN User
  /\ ~ isUserAdmin(rq.userData.id)

DocumentsOf(rows) == {x.documentId : x \in rows}

ProcessesOf(rows) == {x.processId : x \in rows}

\* C21: the rows behind the figures and lists that getNumbers, getDetails
\* and getWorkflowAnalysis return to an authenticated non-admin user are
\* rows of workflows, processes and documents in that user's scope.
ReportWithinScope ==
  \A r \in DOMAIN req :
    (req[r].status = 200 /\ NonAdminUser(req[r])) =>
      LET userId == req[r].userData.id
          report == req[r].report
          workflows == WorkflowScope(userId)
          processes == ProcessScope(userId, workflows)
          documents == DocumentScope(userId)
      IN /\ report.workflows \subseteq workflows
         /\ report.processes \subseteq processes
         /\ ProcessesOf(report.stepInstances) \subseteq processes
         /\ ProcessesOf(report.queries) \subseteq processes
         /\ ProcessesOf(report.signedDocuments) \subseteq processes
         /\ ProcessesOf(report.rejectedDocuments) \subseteq processes
         /\ DocumentsOf(report.signedDocuments) \subseteq documents
         /\ DocumentsOf(report.rejectedDocuments) \subseteq documents
         /\ DocumentsOf(report.replacedDocuments) \subseteq documents

\* C26: in a 200 response of getDetails to a non-admin, the workflows are
\* those of allowedWorkflowIds, the processes and queries those of
\* allowedProcessIds, the replaced documents those of allowedDocumentIds,
\* the signed and rejected entries those with the document in
\* allowedDocumentIds and the process in allowedProcessIds, so that an
\* empty set gives an empty list; to an admin every row is returned.
DetailsFiltered ==
  \A r \in DOMAIN req :
    (req[r].endpoint = "getDetails" /\ req[r].status = 200) =>
      LET report == req[r].report
          W == req[r].allowedWorkflowIds.ids
          P == req[r].allowedProcessIds.ids
          D == req[r].allowedDocumentIds.ids
      IN IF req[r].isAdmin
         THEN /\ report.workflows = Workflow
              /\ report.processes = DOMAIN ProcessInstance
              /\ report.queries = ProcessQA
              /\ report.signedDocuments = DocumentSignature
              /\ report.rejectedDocuments = DocumentRejection
              /\ report.replacedDocuments = DocumentHistory
         ELSE /\ report.workflows = Workflow \cap W
              /\ report.processes = DOMAIN ProcessInstance \cap P
              /\ report.queries = {q \in ProcessQA : q.processId \in P}
              /\ report.signedDocuments =
                   {x \in DocumentSignature :
                      x.documentId \in D /\ x.processId \in P}
              /\ report.rejectedDocuments =
                   {x \in DocumentRejection :
                      x.documentId \in D /\ x.processId \in P}
              /\ report.replacedDocuments =
                   {h \in DocumentHistory : h.documentId \in D}

DetailsFilteredWitness ==
  \E r \in DOMAIN req :
    /\ req[r].endpoint = "getDetails"
    /\ req[r].status = 200
    /\ ~ req[r].isAdmin
    /\ req[r].allowedWorkflowIds = Arr({})
    /\ req[r].report.workflows = {}
    /\ Workflow # {}
    /\ req[r].report.replacedDocuments # {}
    /\ req[r].report.replacedDocuments # DocumentHistory

\* The grant loop of getAllowedDocumentIds with getParents and
\* hasFullAccessParent taken out.
withoutParentsWalk(access, allowed) ==
  IF access.accessLevel = "FULL"
  THEN getAllChildren(access.documentId, allowed \cup {access.documentId})
  ELSE IF access.accessType \cap AccessTypes # {}
  THEN allowed \cup {access.documentId}
  ELSE allowed

RECURSIVE withoutParentsWalks(_, _)
withoutParentsWalks(todo, allowed) ==
  IF todo = {} THEN allowed
  ELSE LET access == CHOOSE a \in todo : TRUE
       IN withoutParentsWalks(todo \ {access},
                              withoutParentsWalk(access, allowed))

\* C25: over every forest and grant set, getAllowedDocumentIds returns the
\* set that the same algorithm returns without the ancestor-chain walk.
AncestorCheckRedundant ==
  \A i \in CallsOf("getAllowedDocumentIds") :
    call[i].retIds =
      withoutParentsWalks(GrantSet(call[i].userId), {})
      \cup userDocuments(call[i].userId)

AncestorCheckWitness ==
  \E i \in CallsOf("getAllowedDocumentIds") :
    \E g \in GrantSet(call[i].userId), h \in GrantSet(call[i].userId) :
      /\ g.accessLevel = "STANDARD"
      /\ g.accessType = {"READ"}
      /\ h.accessLevel = "FULL"
      /\ Depth(g.documentId) >= 2
      /\ hasFullAccessParent({h}, getParents(g.documentId))
      /\ Document[g.documentId].parentId # h.documentId
      /\ call[i].retIds # DOMAIN Document

\* C27: over an acyclic hierarchy every call of getAllowedDocumentIds
\* ends, by returning or by throwing on a rejected query: no descent and no
\* ancestor walk goes on for ever.
TraversalTerminates ==
  (walk.pc \notin {"idle", "done", "threw"})
    ~> (walk.pc \in {"done", "threw"})

TraversalTerminatesWitness ==
  /\ walk.pc = "done"
  /\ \E g \in walk.accesses, h \in walk.accesses :
       /\ g.accessLevel = "FULL"
       /\ \E d \in Subtree(g.documentId) : Depth(d) >= Depth(g.documentId) + 2
       /\ Subtree(g.documentId) \subseteq walk.allowed
       /\ h.accessLevel = "STANDARD"
       /\ Depth(h.documentId) >= 2

\* C28: a second call of a resolver, made after grants or assignments
\* were added to the store or with a larger allowed-workflow argument,
\* returns every id the first call returned.
ResolversMonotone ==
  Len(call) = 2 => call[1].retIds \subseteq call[2].retIds

ResolversMonotoneWitness ==
  /\ Len(call) = 2
  /\ call[1].fn = "getAllowedDocumentIds"
  /\ \E d \in call[1].retIds : Document[d].createdById # call[1].userId
  /\ \E d \in call[2].retIds : d \notin call[1].retIds

\* A getWorkflowAnalysis request and a getDetails request of the same
\* non-admin user, both past their call of getAllowedProcessIds.
ScopedAndUnscoped(scoped, unscoped) ==
  /\ scoped.endpoint = "getWorkflowAnalysis"
  /\ unscoped.endpoint = "getDetails"
  /\ NonAdminUser(scoped)
  /\ unscoped.userData = scoped.userData
  /\ ~ scoped.allowedProcessIds.isNull
  /\ ~ unscoped.allowedProcessIds.isNull

\* C29: for a non-admin user who passed the workflow check of
\* getWorkflowAnalysis for workflow W, the process set resolved there holds
\* every process instance of W and lies within the process set the same
\* user's getDetails request resolves over the same store.
ScopedWithinUnscoped ==
  \A r1 \in DOMAIN req, r2 \in DOMAIN req :
    ScopedAndUnscoped(req[r1], req[r2]) =>
      /\ workflowProcesses({req[r1].workflowId})
           \subseteq req[r1].allowedProcessIds.ids
      /\ req[r1].allowedProcessIds.ids \subseteq req[r2].allowedProcessIds.ids

ScopedWithinUnscopedWitness ==
  \E r1 \in DOMAIN req, r2 \in DOMAIN req :
    /\ ScopedAndUnscoped(req[r1], req[r2])
    /\ workflowProcesses({req[r1].workflowId}) # {}
    /\ req[r1].allowedProcessIds.ids # req[r2].allowedProcessIds.ids

====
